---- MODULE Spec2Model ----
(***************************************************************************)
(* coyote: ACME certificate issuance, renewal and synchronisation with an  *)
(* external system.  A coyote process is one command of the CLI working on *)
(* the durable store; the ACME endpoint, the store backend and the         *)
(* external system are the environment.                                    *)
(***************************************************************************)
EXTENDS Integers, Sequences, FiniteSets, TLC

(***************************************************************************)
(* Hostnames are sequences of labels: "a.example.com" is                   *)
(* <<"a", "example", "com">>.  The empty sequence is the empty string.     *)
(***************************************************************************)
ExampleCom == <<"example", "com">>
AExampleCom == <<"a", "example", "com">>
BExampleCom == <<"b", "example", "com">>
OtherOrg == <<"other", "org">>
Com == <<"com">>

Hostnames == {ExampleCom, AExampleCom, BExampleCom, OtherOrg, Com}

\* longest list of domains given to one command
MaxDomains == 3

Range(s) == {s[k] : k \in DOMAIN s}

SeqsUpTo(S, n) == UNION {[1..k -> S] : k \in 0..n}

\* the sequences that list every element of S exactly once
Perms(S) == {s \in [1..Cardinality(S) -> S] : Range(s) = S}

(***************************************************************************)
(* golang.org/x/net/publicsuffix, as NewCertificate uses it.               *)
(***************************************************************************)
PublicSuffixList == {<<"com">>, <<"org">>}

IsSuffixOf(s, d) ==
    /\ Len(s) <= Len(d)
    /\ SubSeq(d, Len(d) - Len(s) + 1, Len(d)) = s

\* the longest listed suffix, or the last label (the default rule "*")
PublicSuffix(d) ==
    LET matching == {s \in PublicSuffixList : IsSuffixOf(s, d)}
    IN  IF matching = {}
        THEN SubSeq(d, Len(d), Len(d))
        ELSE CHOOSE s \in matching : \A t \in matching : Len(t) <= Len(s)

\* "" stands for the error return
EffectiveTLDPlusOne(d) ==
    LET suffix == PublicSuffix(d)
    IN  IF Len(d) <= Len(suffix)
        THEN <<>>
        ELSE SubSeq(d, Len(d) - Len(suffix), Len(d))

(***************************************************************************)
(* Results of calls.  An error value names the failing call.               *)
(***************************************************************************)
Ok == [kind |-> "ok", err |-> <<>>]
Running == [kind |-> "running", err |-> <<>>]
Panic == [kind |-> "panic", err |-> <<"nil pointer dereference">>]
Error(op, arg, n) == [kind |-> "error", err |-> <<op, arg, n>>]

\* golog's Errore logs the error and hands it back
Errore(res) == res

(***************************************************************************)
(* ACME challenges and certificates.                                       *)
(***************************************************************************)
Token(d) == <<"token">> \o d
Response(d) == <<"response">> \o d

\* *acmelib.HTTPAuthChallenge the endpoint hands out for domain d
HTTPAuthChallenge(d) ==
    [AuthChallenge |-> <<"authz">> \o d,
     Path |-> <<<<".well-known">>, <<"acme-challenge">>, Token(d)>>,
     Response |-> Response(d)]

\* filepath.Base
Base(path) == IF path = <<>> THEN <<".">> ELSE path[Len(path)]

\* validity of an issued certificate, in hours
CertValidity == 90 * 24

IssuerCertificate == [Serial |-> 0, NotAfter |-> 0]

\* what CreateCertificate returns: the chain's certificates, leaf first
IssuedCertificate(serial, notAfter) ==
    [Certificates |-> <<[Serial |-> serial, NotAfter |-> notAfter],
                        IssuerCertificate>>,
     Key |-> serial]

\* DER bytes of a certificate
Raw(c) == <<c.Serial, c.NotAfter>>

CertificatesPEM(cert) ==
    [k \in DOMAIN cert.Certificates |->
        [Type |-> "CERTIFICATE", Bytes |-> Raw(cert.Certificates[k])]]

PrivateKeyPEM(cert) == <<[Type |-> "RSA PRIVATE KEY", Bytes |-> <<cert.Key>>]>>

\* the record NewCertificate builds; it leaves Thumbprint at its zero value
StoreCertificate(domain, sans, cert) ==
    [Domain |-> domain,
     AlternativeNames |-> sans,
     CertificateChain |-> CertificatesPEM(cert),
     PrivateKey |-> PrivateKeyPEM(cert),
     Expires |-> cert.Certificates[1].NotAfter,
     Thumbprint |-> <<>>]

\* cryptutil.Thumbprint: a digest of the raw bytes
Thumbprint(raw) == <<"sha256">> \o raw

\* x509.ParseCertificate, as a pointer: <<>> stands for the error
ParseCertificate(bytes) ==
    IF Len(bytes) = 2
    THEN <<[Serial |-> bytes[1], NotAfter |-> bytes[2]]>>
    ELSE <<>>

IsCertificateBlock(block) == block.Type = "CERTIFICATE"

\* Host.DecodeCertificates: the certificates of the bundle; <<>> stands for
\* the error (a block that does not parse, or no certificate at all)
DecodeCertificates(pem) ==
    LET blocks == SelectSeq(pem, IsCertificateBlock)
    IN  IF \E k \in DOMAIN blocks : ParseCertificate(blocks[k].Bytes) = <<>>
        THEN <<>>
        ELSE [k \in DOMAIN blocks |-> ParseCertificate(blocks[k].Bytes)[1]]

getAllNames(cert) == <<cert.Domain>> \o cert.AlternativeNames

\* the host sync.Certificate puts for a name of cert
Host(domain, cert) ==
    [Domain |-> domain,
     CertificatePEM |-> cert.CertificateChain,
     PrivateKeyPEM |-> cert.PrivateKey]

\* a comparison that never finds the certificate in place
ThumbprintNeverMatches(bundle, cert) == FALSE

\* sync.Certificate: extThumbprint == cert.Thumbprint
ThumbprintMatches(bundle, cert) == Thumbprint(Raw(bundle[1])) = cert.Thumbprint

\* a merge that drops the names both lists hold
uniqueStringsInOneOnly(a, b) ==
    Perms((Range(a) \cup Range(b)) \ (Range(a) \cap Range(b)))

\* a merge that forgets the stored names
uniqueStringsOfFirst(a, b) == Perms(Range(a))

\* uniqueStrings: the keys of a Go map, in any order
uniqueStrings(a, b) == Perms(Range(a) \cup Range(b))

VARIABLES
    certs,        \* store: certificates by key (the Domain they were put under)
    challenges,   \* store: challenge values by key
    issued,       \* ACME endpoint: serial of the last certificate issued
    now,          \* the clock, in hours
    env,          \* how the environment answers
    cmd,          \* the command this process runs
    pc,           \* where the process stands
    result,       \* what the command returned
    auth,         \* frame of Authorize
    nc,           \* frame of NewCertificate
    loop,         \* frame of RenewExpiringCertificates and of the loop around it
    sync,         \* frame of sync.Certificates
    hosts,        \* external system: hosts by domain
    begun,        \* log: the endpoint's answers to BeginAuthorize, by domain
    created,      \* log: the CreateCertificate requests of this NewCertificate
    stored,       \* log: the records PutCertificate wrote in this NewCertificate
    certs0,       \* log: the certificates when NewCertificate was called
    challenges0,  \* log: the challenges when the command started
    visits,       \* log: the hosts sync.Certificates looked up, and what it did
    ops,          \* log: the calls made directly, and what they returned
    accounts,     \* store: accounts by key
    other         \* frame of NewCertificate in a second process

logVars == <<begun, created, stored, certs0, challenges0>>
vars == <<certs, challenges, issued, now, env, cmd, pc, result, auth, nc, loop,
          sync, hosts, begun, created, stored, certs0, challenges0, visits, ops,
          accounts, other>>

(***************************************************************************)
(* The store.  challenges holds the entries of the backend by their path.  *)
(***************************************************************************)
Put(map, key, value) == (key :> value) @@ map

challengesPath == "challenges"

IsComponent(c) == c # ""

\* libkvStore.path: the prefix and the components joined, the last one being
\* key; filepath.Join drops the empty ones
path(prefix, components, key) ==
    LET all == SelectSeq(<<prefix>> \o components, IsComponent)
    IN  IF key # <<>>
        THEN [dirs |-> all, base |-> key]
        ELSE IF all = <<>>
        THEN [dirs |-> <<>>, base |-> <<>>]
        ELSE [dirs |-> SubSeq(all, 1, Len(all) - 1), base |-> <<all[Len(all)]>>]

\* a key handed to the backend as it is
Bare(key) == [dirs |-> <<>>, base |-> key]

\* libkvStore.PutChallenge: the write it makes, or none for a rejected one
PutChallengeRejected(ch) == ch.Key = <<>> \/ ch.Value = <<>>

\* accounts holds the entries of the backend under accountsPath by their
\* path; an entry is the Account that was marshalled into it
accountsPath == "accounts"

Account(uri, email, key) == [URI |-> uri, Email |-> email, Key |-> key]

\* secret.Box: what Seal makes of a key can be opened with the same secret
\* key only
NewBoxFromKeyString(secretKey) == IF secretKey = "" THEN <<>> ELSE <<secretKey>>
Seal(box, bytes) == <<"sealed", box, bytes>>
Open(box, sealed) == IF sealed[2] = box THEN <<sealed[3]>> ELSE <<>>

\* the endpoint: the account of its n-th registration and the key made for it
AccountURI(n) == <<"reg", n>>
KeyBytes(n) == <<"der", n>>
parsePrivateKeyFromDER(bytes) == IF bytes[1] = "der" THEN <<<<"signer">> \o bytes>> ELSE <<>>

ContactEmail == <<"admin@example.com">>

\* the account NewCoyote stored when this process started
EarlierAccounts ==
    path("coyote", <<accountsPath>>, ContactEmail)
        :> Account(AccountURI(0), ContactEmail,
                   Seal(NewBoxFromKeyString("k1"), KeyBytes(0)))

\* a second process: where it stands in NewCertificate for its one group
\* (group are the names of its input under domain), the record it found
\* when it loaded (seen) and the one it replaced when it stored (replaced),
\* and whether it stored while this process stood between its own load and
\* store for that domain (within)
OtherIdle == [pc |-> "idle", domain |-> <<>>, group |-> <<>>, sans |-> <<>>,
              cert |-> <<>>, seen |-> <<>>, replaced |-> <<>>, within |-> FALSE]

(***************************************************************************)
(* The environment.  env.acme[d] tells how the endpoint treats domain d:   *)
(* "any" leaves every answer open, "good" hands out a challenge and        *)
(* completes it, "bad" hands out a challenge and never completes it,       *)
(* "valid" holds a valid authorization already.  env.faults tells whether  *)
(* the store, certificate issuance and the external system may fail.       *)
(* env.order is the order in which the store's backend lists the keys,     *)
(* env.vulcand whether a vulcand endpoint is configured, env.prefix the    *)
(* configured prefix of the store's keys.                                  *)
(***************************************************************************)
BeginOutcomes(d) ==
    CASE env.acme[d] = "any" -> {"error", "none", "challenge"}
      [] env.acme[d] = "valid" -> {"none"}
      [] OTHER -> {"challenge"}

CompleteOutcomes(d) ==
    CASE env.acme[d] = "any" -> BOOLEAN
      [] env.acme[d] = "bad" -> {FALSE}
      [] OTHER -> {TRUE}

FaultOutcomes == IF env.faults THEN BOOLEAN ELSE {TRUE}

\* the endpoint issues no more than MaxIssued certificates
MaxIssued == 6
IssueOutcomes == IF issued < MaxIssued THEN FaultOutcomes ELSE {FALSE}

\* libkvStore.GetCertificates: the stored certificates in the backend's order
GetCertificates ==
    LET IsStored(key) == key \in DOMAIN certs
        keys == SelectSeq(env.order, IsStored)
    IN  [k \in DOMAIN keys |-> certs[keys[k]]]

(***************************************************************************)
(* Frames.                                                                 *)
(***************************************************************************)
authRetries == 5
backoffMs == 300

\* challenge is a pointer: <<>> is nil, <<c>> points to c
AuthIdle == [domain |-> <<>>, challenge |-> <<>>, i |-> 0, sleeps |-> <<>>,
             attempts |-> <<>>]
AuthStart(d) == [AuthIdle EXCEPT !.domain = d]

\* authErr is the err of `if err := c.Authorize(d)`, err the error variable of
\* the rest; visited are the groups the range has handed out; cert is a pointer
NcIdle == [domains |-> <<>>, idx |-> 0, groupedDomains |-> <<>>,
           authErr |-> Ok, err |-> Ok,
           visited |-> {}, domain |-> <<>>, sans |-> <<>>, cert |-> <<>>]
NcStart(ds) == [NcIdle EXCEPT !.domains = ds, !.idx = 1]

\* certs are the listed certificates, k the one the loop stands at, err the
\* error of the tick; renewed are the certificates the scan returns; ticks
\* counts the sleeps; calls are the domain lists the scan of this tick gave to
\* NewCertificate
LoopIdle == [period |-> 0, before |-> 0, threshold |-> 0, certs |-> <<>>,
             k |-> 0, err |-> Ok, renewed |-> <<>>, ticks |-> 0, calls |-> <<>>]

\* c and j tell the certificate and the name the loops stand at, call how
\* many times the command was run
SyncIdle == [certs |-> <<>>, c |-> 0, j |-> 0, call |-> 0]

(***************************************************************************)
(* Pure parts of the handlers.                                             *)
(***************************************************************************)
\* a wait that counts the attempts from zero
BackoffFromZero(i) == (i - 1) * backoffMs

\* Authorize: the wait after failed attempt i
Backoff(i) == i * backoffMs

\* Authorize: attempt i was the last one allowed
RetriesExhausted(i) == i >= authRetries

\* a grouping under the name itself
GroupDomainUnderName(grouped, d, reg) ==
    IF d \in DOMAIN grouped THEN grouped ELSE Put(grouped, d, <<>>)

\* a grouping that lists the registered domain among its own names
GroupDomainWithSelf(grouped, d, reg) ==
    Put(grouped, reg,
        Append(IF reg \in DOMAIN grouped THEN grouped[reg] ELSE <<>>, d))

\* NewCertificate: the grouping of domain d under its registered domain reg
GroupDomain(grouped, d, reg) ==
    IF reg = d
    THEN IF reg \in DOMAIN grouped THEN grouped ELSE Put(grouped, reg, <<>>)
    ELSE Put(grouped, reg,
             Append(IF reg \in DOMAIN grouped THEN grouped[reg] ELSE <<>>, d))

\* NewCertificate: the SAN lists the merge with the stored certificate can give
MergedSans(sans, domain) ==
    IF domain \in DOMAIN certs
    THEN uniqueStrings(sans, certs[domain].AlternativeNames)
    ELSE {sans}

\* an error check that lets every error pass
NeverFailed(res) == FALSE

\* `if err != nil { return ... }`
Failed(res) == res.kind = "error"

\* a BeginAuthorize that hands out the challenge without storing it
BeginAuthorizeUnstored(d, outcome, putOk) ==
    IF outcome = "challenge"
    THEN [challenge |-> <<HTTPAuthChallenge(d)>>, res |-> Ok, write |-> <<>>]
    ELSE [challenge |-> <<>>,
          res |-> IF outcome = "error"
                  THEN Errore(Error("BeginAuthorize", d, 0))
                  ELSE Ok,
          write |-> <<>>]

\* coyote.BeginAuthorize: the challenge pointer and error it returns, and the
\* challenge it writes to the store (as a pointer too)
BeginAuthorizeResult(d, outcome, putOk) ==
    LET challenge == HTTPAuthChallenge(d)
        rec == [Key |-> Base(challenge.Path), Value |-> challenge.Response]
    IN  CASE outcome = "error" ->
               [challenge |-> <<>>, res |-> Errore(Error("BeginAuthorize", d, 0)),
                write |-> <<>>]
          [] outcome = "none" ->
               [challenge |-> <<>>, res |-> Ok, write |-> <<>>]
          [] OTHER ->
               IF PutChallengeRejected(rec) \/ ~putOk
               THEN [challenge |-> <<>>,
                     res |-> Errore(Error("PutChallenge", d, 0)),
                     write |-> <<>>]
               ELSE [challenge |-> <<challenge>>, res |-> Ok, write |-> <<rec>>]

(***************************************************************************)
(* Returns.  Each sets what Proc sets.                                     *)
(***************************************************************************)
Proc(p, res, a, n, l, s) ==
    /\ pc' = p
    /\ result' = res
    /\ auth' = a
    /\ nc' = n
    /\ loop' = l
    /\ sync' = s

\* the command ends: it returned res, or the process died of a panic
Done(res, a, n) == Proc("done", res, a, n, loop, sync)

\* time.Sleep(period) is next
ToSleep(l, s) == Proc("sleep", Running, AuthIdle, NcIdle, l, s)

\* certificateSync of the watch loop, whose error is logged
certificateSync(cs, l) ==
    IF ~env.vulcand \/ cs = <<>>
    THEN ToSleep(l, SyncIdle)
    ELSE Proc("sync", Running, AuthIdle, NcIdle, l,
              [SyncIdle EXCEPT !.certs = cs, !.c = 1, !.j = 1, !.call = 1])

\* RenewExpiringCertificates returns res to command
RenewReturns(command, res, l) ==
    CASE command = "certs renew" ->
           IF Failed(res)
           THEN Proc("done", Error("unable to renew certificates", res.err, 255),
                     AuthIdle, NcIdle, l, SyncIdle)
           ELSE Proc("done", Ok, AuthIdle, NcIdle, l, SyncIdle)
      [] command = "RenewLoop" ->
           IF Failed(res)
           THEN Proc("done", Errore(res), AuthIdle, NcIdle, l, SyncIdle)
           ELSE ToSleep(l, SyncIdle)
      [] OTHER ->
           IF Failed(res)
           THEN ToSleep([l EXCEPT !.err = res], SyncIdle)
           ELSE certificateSync(l.renewed, l)

\* the renewed certificates the scan hands to the watch loop
Renewed(l, n) ==
    Append(l.renewed, StoreCertificate(n.domain, n.sans, n.cert[1]))

\* NewCertificate returns res: to certsAddCmd, or to the loop of
\* RenewExpiringCertificates
NewCertificateReturns(res, n) ==
    IF cmd = "certs add"
    THEN Done(res, AuthIdle, n)
    ELSE IF Failed(res)
    THEN RenewReturns(cmd, Errore(res), [loop EXCEPT !.err = res])
    ELSE Proc("scan", result, AuthIdle, NcIdle,
              [loop EXCEPT !.k = @ + 1, !.renewed = Renewed(loop, n)], sync)

\* Authorize returns res to its caller; in NewCertificate the loop over the
\* domains goes on with the grouping of the domain just authorized
AuthorizeReturns(res, a) ==
    IF cmd = "authorize"
    THEN Done(res, a, nc)
    ELSE IF Failed(res)
    THEN NewCertificateReturns(Errore(res), [nc EXCEPT !.authErr = res])
    ELSE LET d == nc.domains[nc.idx]
             reg == EffectiveTLDPlusOne(d)
             regErr == IF reg = <<>>
                       THEN Error("EffectiveTLDPlusOne", d, 0)
                       ELSE Ok
             n == [nc EXCEPT !.groupedDomains = GroupDomain(@, d, reg),
                             !.idx = @ + 1, !.authErr = res, !.err = regErr]
         IN  IF Failed(regErr)
             THEN NewCertificateReturns(Errore(regErr),
                                        [nc EXCEPT !.authErr = res, !.err = regErr])
             ELSE IF n.idx <= Len(n.domains)
             THEN Proc("begin", result, AuthStart(n.domains[n.idx]), n, loop, sync)
             ELSE Proc("groups", result, AuthIdle, n, loop, sync)

(***************************************************************************)
(* Commands.                                                               *)
(***************************************************************************)
StartLogs ==
    /\ begun' = <<>>
    /\ created' = <<>>
    /\ stored' = <<>>
    /\ certs0' = certs
    /\ challenges0' = challenges

\* coyote certificates add [domains]
CertsAdd(ds) ==
    /\ cmd = "idle"
    /\ cmd' = "certs add"
    /\ IF Len(ds) < 1
       THEN Done(Error("must specify one or more domains", <<>>, 2), AuthIdle, NcIdle)
       ELSE Proc("begin", Running, AuthStart(ds[1]), NcStart(ds), loop, sync)
    /\ StartLogs
    /\ UNCHANGED <<accounts, other, certs, challenges, issued, now, env, hosts, visits, ops>>

\* a command is run no more than MaxCalls times
MaxCalls == 2

\* coyote certificates add with the same domains once more, after it
\* succeeded; ops keeps what the call before left
CertsAddAgain ==
    /\ cmd = "certs add"
    /\ pc = "done"
    /\ result = Ok
    /\ Len(ops) + 1 < MaxCalls
    /\ ops' = Append(ops, [op |-> "certs add", domains |-> nc.domains,
                           certs |-> certs, created |-> created])
    /\ Proc("begin", Running, AuthStart(nc.domains[1]), NcStart(nc.domains),
            loop, sync)
    /\ StartLogs
    /\ UNCHANGED <<accounts, other, certs, challenges, issued, now, env, cmd, hosts, visits>>

\* coyote authorize [domain]
AuthorizeCmd(d) ==
    /\ cmd = "idle"
    /\ cmd' = "authorize"
    /\ Proc("begin", Running, AuthStart(d), NcIdle, loop, sync)
    /\ StartLogs
    /\ UNCHANGED <<accounts, other, certs, challenges, issued, now, env, hosts, visits, ops>>

\* coyote authorize begin [domain]
AuthorizeBeginCmd(d) ==
    /\ cmd = "idle"
    /\ cmd' = "authorize begin"
    /\ Proc("begin", Running, AuthStart(d), NcIdle, loop, sync)
    /\ StartLogs
    /\ UNCHANGED <<accounts, other, certs, challenges, issued, now, env, hosts, visits, ops>>

(***************************************************************************)
(* Authorize.                                                              *)
(***************************************************************************)
\* coyote.BeginAuthorize, and what its caller does with the challenge
BeginAuthorize ==
    /\ pc = "begin"
    /\ \E outcome \in BeginOutcomes(auth.domain), putOk \in FaultOutcomes :
        /\ outcome # "challenge" => putOk
        /\ LET r == BeginAuthorizeResult(auth.domain, outcome, putOk)
               a == [auth EXCEPT !.challenge = r.challenge]
           IN  /\ begun' = Append(begun, [domain |-> auth.domain, answer |-> outcome])
               /\ challenges' = IF r.write = <<>>
                                THEN challenges
                                ELSE Put(challenges,
                                         path(env.prefix, <<challengesPath>>,
                                              r.write[1].Key),
                                         r.write[1].Value)
               /\ IF cmd = "authorize begin"
                  THEN \* authorizeBeginCmd prints challenge.AuthChallenge.URI
                       IF Failed(r.res)
                       THEN Done(Error("unable to get challenge", auth.domain, 255), a, nc)
                       ELSE IF r.challenge = <<>>
                       THEN Done(Panic, a, nc)
                       ELSE Done(Ok, a, nc)
                  ELSE \* Authorize reads challenge.AuthChallenge
                       IF Failed(r.res)
                       THEN AuthorizeReturns(Errore(r.res), a)
                       ELSE IF r.challenge = <<>>
                       THEN Done(Panic, a, nc)
                       ELSE Proc("complete", result, [a EXCEPT !.i = 1], nc, loop, sync)
    /\ UNCHANGED <<accounts, other, certs, issued, now, env, cmd, hosts, created, stored, certs0,
                   challenges0, visits, ops>>

\* one turn of Authorize's loop: the endpoint's CompleteAuthorize, then the
\* return or the sleep
AuthorizeAttempt ==
    /\ pc = "complete"
    /\ \E ok \in CompleteOutcomes(auth.domain) :
        LET a == [auth EXCEPT !.attempts = Append(@, ok)]
        IN  IF ok
            THEN AuthorizeReturns(Ok, a)
            ELSE IF RetriesExhausted(auth.i)
            THEN AuthorizeReturns(Error("CompleteAuthorize", auth.domain, auth.i), a)
            ELSE Proc("complete", result,
                      [a EXCEPT !.sleeps = Append(@, Backoff(auth.i)), !.i = @ + 1],
                      nc, loop, sync)
    /\ UNCHANGED <<accounts, other, certs, challenges, issued, now, env, cmd, hosts, logVars, visits, ops>>

\* coyote.CompleteAuthorize, called with the URI of the challenge that
\* BeginAuthorize returned
CompleteAuthorize ==
    /\ cmd = "authorize begin"
    /\ pc = "done"
    /\ result = Ok
    /\ auth.challenge # <<>>
    /\ cmd' = "CompleteAuthorize"
    /\ \E ok \in CompleteOutcomes(auth.domain) :
        Proc("done",
             IF ok THEN Ok ELSE Errore(Error("CompleteAuthorizeURI", auth.domain, 1)),
             [auth EXCEPT !.i = 1, !.attempts = Append(@, ok)], nc, loop, sync)
    /\ UNCHANGED <<accounts, other, certs, challenges, issued, now, env, hosts, logVars, visits, ops>>

(***************************************************************************)
(* NewCertificate: the loop over the groups.                               *)
(***************************************************************************)
Pending(n) == DOMAIN n.groupedDomains \ n.visited

\* the next group of the range over the map, its stored certificate and the merge
GetCertificate ==
    /\ pc = "groups"
    /\ \E domain \in Pending(nc), ok \in FaultOutcomes :
        LET res == IF ok THEN Ok ELSE Error("GetCertificate", domain, 0)
            n == [nc EXCEPT !.visited = @ \cup {domain}, !.domain = domain,
                            !.sans = nc.groupedDomains[domain], !.cert = <<>>,
                            !.err = res]
        IN  IF Failed(res)
            THEN NewCertificateReturns(Errore(res), n)
            ELSE \E sans \in MergedSans(nc.groupedDomains[domain], domain) :
                    Proc("create", result, auth, [n EXCEPT !.sans = sans], loop, sync)
    /\ UNCHANGED <<accounts, other, certs, challenges, issued, now, env, cmd, hosts, logVars, visits, ops>>

\* the endpoint issues a certificate for (domain, sans), or refuses
CreateCertificate ==
    /\ pc = "create"
    /\ created' = Append(created, [domain |-> nc.domain, sans |-> nc.sans])
    /\ \E ok \in IssueOutcomes :
        LET res == IF ok THEN Ok ELSE Error("CreateCertificate", nc.domain, 0)
            n == [nc EXCEPT !.err = res]
        IN  IF Failed(res)
            THEN /\ NewCertificateReturns(Errore(res), n)
                 /\ UNCHANGED issued
            ELSE /\ issued' = issued + 1
                 /\ Proc("put", result, auth,
                         [n EXCEPT !.cert =
                             <<IssuedCertificate(issued + 1, now + CertValidity)>>],
                         loop, sync)
    /\ UNCHANGED <<accounts, other, certs, challenges, now, env, cmd, hosts, begun, stored, certs0,
                   challenges0, visits, ops>>

\* the record is built and put under its Domain; then the next group
PutCertificate ==
    /\ pc = "put"
    /\ \E ok \in FaultOutcomes :
        LET storeCert == StoreCertificate(nc.domain, nc.sans, nc.cert[1])
            res == IF ok THEN Ok ELSE Error("PutCertificate", nc.domain, 0)
            n == [nc EXCEPT !.err = res]
        IN  /\ IF ok
               THEN /\ certs' = Put(certs, storeCert.Domain, storeCert)
                    /\ stored' = Append(stored, storeCert)
               ELSE UNCHANGED <<certs, stored>>
            /\ IF Failed(res)
               THEN NewCertificateReturns(Errore(res), n)
               ELSE IF Pending(nc) = {}
               THEN NewCertificateReturns(Ok, n)
               ELSE Proc("groups", result, auth, n, loop, sync)
    /\ UNCHANGED <<accounts, other, challenges, issued, now, env, cmd, hosts, begun, created, certs0,
                   challenges0, visits, ops>>

(***************************************************************************)
(* The store's challenges, called directly.                                *)
(***************************************************************************)
MaxOps == 3

StoreCall ==
    /\ cmd \in {"idle", "store"}
    /\ pc \in {"idle", "done"}
    /\ Len(ops) < MaxOps
    /\ cmd' = "store"

\* the entry of a call in ops; challenge is the pointer GetChallenge returns
Op(op, key, value, challenge, res) ==
    [op |-> op, key |-> key, value |-> value, challenge |-> challenge, res |-> res]

\* what the backend answers to the Delete of a key it does not hold
MissingKeyOutcomes == {"nil", "ErrKeyNotFound"}

\* libkvStore.PutChallenge
PutChallenge(challenge) ==
    /\ StoreCall
    /\ \E ok \in FaultOutcomes :
        LET res == IF challenge.Key = <<>>
                   THEN Error("must specify key for challenge", <<>>, 0)
                   ELSE IF challenge.Value = <<>>
                   THEN Error("must specify value for challenge", <<>>, 0)
                   ELSE IF ~ok
                   THEN Error("error saving challenge in store", challenge.Key, 0)
                   ELSE Ok
        IN  /\ PutChallengeRejected(challenge) => ok
            /\ challenges' =
                  IF Failed(res)
                  THEN challenges
                  ELSE Put(challenges,
                           path(env.prefix, <<challengesPath>>, challenge.Key),
                           challenge.Value)
            /\ ops' = Append(ops, Op("PutChallenge", challenge.Key, challenge.Value,
                                     <<>>, res))
            /\ Proc("done", res, auth, nc, loop, sync)
    /\ UNCHANGED <<accounts, other, certs, issued, now, env, hosts, logVars, visits>>

\* libkvStore.GetChallenge: the pointer and the error it returns; a key the
\* backend does not hold gives neither
GetChallengeReturns(key, ok) ==
    LET p == path(env.prefix, <<challengesPath>>, key)
        found == ok /\ p \in DOMAIN challenges
    IN  [challenge |-> IF found
                       THEN <<[Key |-> key, Value |-> challenges[p]]>>
                       ELSE <<>>,
         res |-> IF ok THEN Ok ELSE Error("error retrieving challenge", key, 0)]

GetChallenge(key) ==
    /\ StoreCall
    /\ \E ok \in FaultOutcomes :
        LET got == GetChallengeReturns(key, ok)
        IN  /\ ops' = Append(ops, Op("GetChallenge", key, <<>>, got.challenge,
                                     got.res))
            /\ Proc("done", got.res, auth, nc, loop, sync)
    /\ UNCHANGED <<accounts, other, certs, challenges, issued, now, env, hosts, logVars, visits>>

\* libkvStore.DeleteChallenge: the error it returns and the entries it leaves
DeleteChallengeReturns(key, ok, missing) ==
    LET held == Bare(key) \in DOMAIN challenges
        res == IF key = <<>>
               THEN Error("must specify key", <<>>, 0)
               ELSE IF (held /\ ~ok) \/ (~held /\ missing = "ErrKeyNotFound")
               THEN Error("error while trying to remove challenge from store",
                          key, 0)
               ELSE Ok
    IN  [res |-> res,
         challenges |-> IF Failed(res)
                        THEN challenges
                        ELSE [k \in DOMAIN challenges \ {Bare(key)} |->
                                 challenges[k]]]

\* the answers of the backend that DeleteChallenge(key) does not look at
DeleteUnasked(key, ok, missing) ==
    LET held == Bare(key) \in DOMAIN challenges
    IN  /\ (key = <<>> \/ ~held) => ok
        /\ (key = <<>> \/ held) => missing = "nil"

DeleteChallenge(key) ==
    /\ StoreCall
    /\ \E ok \in FaultOutcomes, missing \in MissingKeyOutcomes :
        LET del == DeleteChallengeReturns(key, ok, missing)
        IN  /\ DeleteUnasked(key, ok, missing)
            /\ challenges' = del.challenges
            /\ ops' = Append(ops, Op("DeleteChallenge", key, <<>>, <<>>, del.res))
            /\ Proc("done", del.res, auth, nc, loop, sync)
    /\ UNCHANGED <<accounts, other, certs, issued, now, env, hosts, logVars, visits>>

(***************************************************************************)
(* Renewal.                                                                *)
(***************************************************************************)
Hour == 1
MaxTicks == 2

\* coyote certificates renew
CertsRenewCmd ==
    /\ cmd = "idle"
    /\ cmd' = "certs renew"
    /\ Proc("tick", Running, AuthIdle, NcIdle,
            [LoopIdle EXCEPT !.before = 7 * Hour * 24], SyncIdle)
    /\ UNCHANGED <<accounts, other, certs, challenges, issued, now, env, hosts, logVars, visits, ops>>

\* coyote.RenewLoop(period, before)
RenewLoop(period, before) ==
    /\ cmd = "idle"
    /\ cmd' = "RenewLoop"
    /\ Proc("tick", Running, AuthIdle, NcIdle,
            [LoopIdle EXCEPT !.period = period, !.before = before], SyncIdle)
    /\ UNCHANGED <<accounts, other, certs, challenges, issued, now, env, hosts, logVars, visits, ops>>

\* coyote certificates watch
CertsWatchCmd ==
    /\ cmd = "idle"
    /\ cmd' = "certs watch"
    /\ LET day == 7 * Hour * 24
       IN  Proc("tick", Running, AuthIdle, NcIdle,
                [LoopIdle EXCEPT !.period = day, !.before = day * 7], SyncIdle)
    /\ UNCHANGED <<accounts, other, certs, challenges, issued, now, env, hosts, logVars, visits, ops>>

\* RenewExpiringCertificates: the listing and the threshold
RenewExpiringCertificates ==
    /\ pc = "tick"
    /\ \E ok \in FaultOutcomes :
        LET l == [loop EXCEPT !.certs = <<>>, !.k = 0, !.err = Ok, !.renewed = <<>>,
                              !.threshold = 0, !.calls = <<>>]
        IN  IF ~ok
            THEN RenewReturns(cmd, Errore(Error("GetCertificates", <<>>, 0)), l)
            ELSE Proc("scan", result, auth, nc,
                      [l EXCEPT !.certs = GetCertificates, !.k = 1,
                                !.threshold = now + loop.before], SyncIdle)
    /\ UNCHANGED <<accounts, other, certs, challenges, issued, now, env, cmd, hosts, logVars, visits, ops>>

\* threshold.After(cert.Expires)
Expiring(threshold, cert) == threshold > cert.Expires

\* one turn of the loop of RenewExpiringCertificates: the certificate at loop.k
Scan ==
    /\ pc = "scan"
    /\ IF loop.k > Len(loop.certs)
       THEN /\ RenewReturns(cmd, Ok, loop)
            /\ UNCHANGED logVars
       ELSE LET cert == loop.certs[loop.k]
                domains == Append(cert.AlternativeNames, cert.Domain)
            IN  IF Expiring(loop.threshold, cert)
                THEN /\ Proc("begin", result, AuthStart(domains[1]), NcStart(domains),
                             [loop EXCEPT !.calls = Append(@, domains)], sync)
                     /\ StartLogs
                ELSE /\ Proc("scan", result, auth, nc, [loop EXCEPT !.k = @ + 1], sync)
                     /\ UNCHANGED logVars
    /\ UNCHANGED <<accounts, other, certs, challenges, issued, now, env, cmd, hosts, visits, ops>>

\* time.Sleep(period), then the next turn of the loop; the clock of the model
\* stops after MaxTicks sleeps
Sleep ==
    /\ pc = "sleep"
    /\ now' = IF loop.ticks < MaxTicks THEN now + loop.period ELSE now
    /\ Proc("tick", result, auth, nc,
            [loop EXCEPT !.ticks = IF @ < MaxTicks THEN @ + 1 ELSE @], sync)
    /\ visits' = <<>>
    /\ UNCHANGED <<accounts, other, certs, challenges, issued, env, cmd, hosts, logVars, ops>>

(***************************************************************************)
(* sync.Certificates.                                                      *)
(***************************************************************************)
\* a return that loses the error
SyncReturnsNil(res) == Proc("done", Ok, auth, nc, loop, sync)

\* Certificates returns res: to ExternalWithCoyote, or to the watch loop,
\* which logs an error
SyncReturns(res) ==
    IF cmd = "sync"
    THEN Proc("done", res, auth, nc, loop, sync)
    ELSE ToSleep([loop EXCEPT !.err = res], sync)

\* Certificate has returned nil for the certificate at sync.c
NextCertificate ==
    IF sync.c < Len(sync.certs)
    THEN Proc("sync", result, auth, nc, loop, [sync EXCEPT !.c = @ + 1, !.j = 1])
    ELSE SyncReturns(Ok)

\* the command was run, returned ok and is run once more
RunAgain ==
    /\ cmd = "sync"
    /\ pc = "done"
    /\ result = Ok
    /\ sync.call < MaxCalls

\* ExternalWithCoyote: every stored certificate is synchronised
ExternalWithCoyote ==
    /\ cmd = "idle" \/ RunAgain
    /\ cmd' = "sync"
    /\ \E ok \in FaultOutcomes :
        LET s == [SyncIdle EXCEPT !.call = sync.call + 1]
        IN  IF ~ok
            THEN Proc("done", Errore(Error("GetCertificates", <<>>, 0)), auth, nc, loop, s)
            ELSE IF GetCertificates = <<>>
            THEN Proc("done", Ok, auth, nc, loop, s)
            ELSE Proc("sync", Running, auth, nc, loop,
                      [s EXCEPT !.certs = GetCertificates, !.c = 1, !.j = 1])
    /\ visits' = <<>>
    /\ UNCHANGED <<accounts, other, certs, challenges, issued, now, env, hosts, logVars, ops>>

\* one turn of the loop of sync.Certificate: the name at sync.j of the
\* certificate at sync.c
SyncHost ==
    /\ pc = "sync"
    /\ \E getOk \in FaultOutcomes, putOk \in FaultOutcomes :
        LET cert == sync.certs[sync.c]
            domain == getAllNames(cert)[sync.j]
            host == IF domain \in DOMAIN hosts THEN <<hosts[domain]>> ELSE <<>>
            bundle == IF host = <<>>
                      THEN <<>>
                      ELSE DecodeCertificates(host[1].CertificatePEM)
            visit == [c |-> sync.c, name |-> domain, found |-> host, put |-> FALSE,
                      err |-> ""]
        IN  IF ~getOk
            THEN /\ putOk
                 /\ SyncReturns(Errore(Error("GetHost", domain, 0)))
                 /\ visits' = Append(visits, [visit EXCEPT !.found = <<>>,
                                                            !.err = "GetHost"])
                 /\ UNCHANGED hosts
            ELSE IF host # <<>> /\ bundle = <<>>
            THEN /\ putOk
                 /\ SyncReturns(Errore(Error("DecodeCertificates", domain, 0)))
                 /\ visits' = Append(visits, [visit EXCEPT !.err = "DecodeCertificates"])
                 /\ UNCHANGED hosts
            ELSE IF host # <<>> /\ ThumbprintMatches(bundle, cert)
            THEN /\ putOk
                 /\ NextCertificate
                 /\ visits' = Append(visits, visit)
                 /\ UNCHANGED hosts
            ELSE /\ visits' = Append(visits, [visit EXCEPT !.put = TRUE,
                                   !.err = IF putOk THEN "" ELSE "PutHost"])
                 /\ IF ~putOk
                    THEN /\ SyncReturns(Errore(Error("PutHost", domain, 0)))
                         /\ UNCHANGED hosts
                    ELSE /\ hosts' = Put(hosts, domain, Host(domain, cert))
                         /\ IF sync.j < Len(getAllNames(cert))
                            THEN Proc("sync", result, auth, nc, loop,
                                      [sync EXCEPT !.j = @ + 1])
                            ELSE NextCertificate
    /\ UNCHANGED <<accounts, other, certs, challenges, issued, now, env, cmd, logVars, ops>>

(***************************************************************************)
(* The store a command finds: certificates written by earlier runs of      *)
(* `certificates add`.                                                     *)
(***************************************************************************)
EarlierCertificate(domain, sans, serial, notAfter) ==
    StoreCertificate(domain, sans, IssuedCertificate(serial, notAfter))

EarlierSans ==
    [d \in {ExampleCom, OtherOrg} |->
        IF d = ExampleCom
        THEN {<<>>, <<AExampleCom>>, <<BExampleCom, AExampleCom>>}
        ELSE {<<>>}]

\* the stores holding the certificates of the domains in ds, expiring at notAfter[d]
EarlierStores(ds, notAfter) ==
    {[d \in ds |-> EarlierCertificate(d, sans[d], IF d = ExampleCom THEN 1 ELSE 2,
                                      notAfter[d])] :
        sans \in {f \in [ds -> UNION {EarlierSans[d] : d \in ds}] :
                    \A d \in ds : f[d] \in EarlierSans[d]}}

\* the challenges earlier authorizations left in the store: none, or one
\* that was never served
EarlierChallenges(prefix) ==
    {<<>>, path(prefix, <<challengesPath>>, Token(<<"earlier">>))
               :> Response(<<"earlier">>)}

AnyAnswer == [acme |-> [d \in Hostnames |-> "any"], faults |-> TRUE,
              order |-> <<ExampleCom, OtherOrg>>, vulcand |-> FALSE,
              prefix |-> "coyote"]

Init ==
    /\ certs \in UNION {EarlierStores(ds, [d \in ds |-> CertValidity]) :
                            ds \in SUBSET {ExampleCom, OtherOrg}}
    /\ challenges \in EarlierChallenges(AnyAnswer.prefix)
    /\ issued = 2
    /\ now = 0
    /\ env = AnyAnswer
    /\ cmd = "idle"
    /\ pc = "idle"
    /\ result = Running
    /\ auth = AuthIdle
    /\ nc = NcIdle
    /\ loop = LoopIdle
    /\ sync = SyncIdle
    /\ hosts = <<>>
    /\ visits = <<>>
    /\ ops = <<>>
    /\ accounts = EarlierAccounts
    /\ other = OtherIdle
    /\ begun = <<>>
    /\ created = <<>>
    /\ stored = <<>>
    /\ certs0 = certs
    /\ challenges0 = challenges

Next ==
    \/ \E ds \in SeqsUpTo(Hostnames, MaxDomains) : CertsAdd(ds)
    \/ \E d \in Hostnames : AuthorizeCmd(d)
    \/ \E d \in Hostnames : AuthorizeBeginCmd(d)
    \/ BeginAuthorize
    \/ AuthorizeAttempt
    \/ CompleteAuthorize
    \/ GetCertificate
    \/ CreateCertificate
    \/ PutCertificate

Spec == Init /\ [][Next]_vars

(***************************************************************************)
(* Synchronisation: the store holds certificates with or without their     *)
(* thumbprint, the external system holds current, stale or broken hosts.   *)
(***************************************************************************)
WithThumbprint(cert) ==
    [cert EXCEPT !.Thumbprint =
        Thumbprint(Raw(DecodeCertificates(cert.CertificateChain)[1]))]

SyncStores ==
    LET earlier == UNION {EarlierStores(ds, [d \in ds |-> CertValidity]) :
                              ds \in SUBSET {ExampleCom, OtherOrg}}
    IN  UNION {{[d \in DOMAIN store |->
                    IF d \in marked THEN WithThumbprint(store[d]) ELSE store[d]] :
                  marked \in SUBSET DOMAIN store} : store \in earlier}

ExternalHosts(d) ==
    LET serial == IF EffectiveTLDPlusOne(d) = ExampleCom THEN 1 ELSE 2
        Holding(n) == Host(d, EarlierCertificate(d, <<>>, n, CertValidity))
    IN  {Holding(serial)}
          \cup (IF d = BExampleCom THEN {} ELSE {Holding(3)})
          \cup (IF d = AExampleCom
                THEN {[Domain |-> d, CertificatePEM |-> <<>>, PrivateKeyPEM |-> <<>>]}
                ELSE {})

ExternalStates ==
    UNION {{h \in [ds -> UNION {ExternalHosts(d) : d \in ds}] :
               \A d \in ds : h[d] \in ExternalHosts(d)} :
             ds \in SUBSET {ExampleCom, AExampleCom, BExampleCom, OtherOrg}}

InitSync ==
    /\ certs \in SyncStores
    /\ challenges = <<>>
    /\ issued = 3
    /\ now = 0
    /\ env \in {[AnyAnswer EXCEPT !.order = o] :
                  o \in IF Cardinality(DOMAIN certs) = 2
                        THEN Perms({ExampleCom, OtherOrg})
                        ELSE {AnyAnswer.order}}
    /\ cmd = "idle"
    /\ pc = "idle"
    /\ result = Running
    /\ auth = AuthIdle
    /\ nc = NcIdle
    /\ loop = LoopIdle
    /\ sync = SyncIdle
    /\ hosts \in ExternalStates
    /\ visits = <<>>
    /\ ops = <<>>
    /\ accounts = EarlierAccounts
    /\ other = OtherIdle
    /\ begun = <<>>
    /\ created = <<>>
    /\ stored = <<>>
    /\ certs0 = certs
    /\ challenges0 = challenges

NextSync ==
    \/ ExternalWithCoyote
    \/ SyncHost

SpecSync == InitSync /\ [][NextSync]_vars

(***************************************************************************)
(* Renewal: the store holds certificates that expire sooner or later, the  *)
(* endpoint treats all names of a registered domain alike, and every step  *)
(* of the process is eventually taken.                                     *)
(***************************************************************************)
RenewStores ==
    UNION {EarlierStores(ds, notAfter) :
             ds \in SUBSET {ExampleCom, OtherOrg}, notAfter \in [Hostnames -> {100, 1300}]}

RenewAnswers ==
    {[acme |-> [d \in Hostnames |->
                   IF EffectiveTLDPlusOne(d) = ExampleCom THEN e ELSE o],
      faults |-> f, order |-> ord, vulcand |-> v, prefix |-> "coyote"] :
        e \in {"good", "bad", "valid"}, o \in {"good", "bad"},
        f \in BOOLEAN, ord \in Perms({ExampleCom, OtherOrg}), v \in BOOLEAN}

InitRenew ==
    /\ certs \in RenewStores
    /\ challenges = <<>>
    /\ issued = 2
    /\ now = 0
    /\ env \in RenewAnswers
    /\ cmd = "idle"
    /\ pc = "idle"
    /\ result = Running
    /\ auth = AuthIdle
    /\ nc = NcIdle
    /\ loop = LoopIdle
    /\ sync = SyncIdle
    /\ hosts = <<>>
    /\ visits = <<>>
    /\ ops = <<>>
    /\ accounts = EarlierAccounts
    /\ other = OtherIdle
    /\ begun = <<>>
    /\ created = <<>>
    /\ stored = <<>>
    /\ certs0 = certs
    /\ challenges0 = challenges

NextRenew ==
    \/ CertsRenewCmd
    \/ RenewLoop(24 * Hour, 7 * 24 * Hour)
    \/ CertsWatchCmd
    \/ RenewExpiringCertificates
    \/ Scan
    \/ Sleep
    \/ BeginAuthorize
    \/ AuthorizeAttempt
    \/ GetCertificate
    \/ CreateCertificate
    \/ PutCertificate
    \/ SyncHost

SpecRenew == InitRenew /\ [][NextRenew]_vars /\ WF_vars(NextRenew)

(***************************************************************************)
(* The store on its own: with or without a prefix, in a backend that may   *)
(* hold an entry of another application under a bare key.                  *)
(***************************************************************************)
StoreKeys == {<<>>, Token(ExampleCom), Token(OtherOrg)}
StoreValues == {<<>>, Response(ExampleCom), Response(OtherOrg)}

InitStore ==
    /\ certs = <<>>
    /\ challenges \in {<<>>, Bare(Token(OtherOrg)) :> <<"other application">>}
    /\ issued = 0
    /\ now = 0
    /\ env \in {[AnyAnswer EXCEPT !.prefix = p, !.faults = f] :
                  p \in {"", "coyote"}, f \in BOOLEAN}
    /\ cmd = "idle"
    /\ pc = "idle"
    /\ result = Running
    /\ auth = AuthIdle
    /\ nc = NcIdle
    /\ loop = LoopIdle
    /\ sync = SyncIdle
    /\ hosts = <<>>
    /\ visits = <<>>
    /\ ops = <<>>
    /\ accounts = <<>>
    /\ other = OtherIdle
    /\ begun = <<>>
    /\ created = <<>>
    /\ stored = <<>>
    /\ certs0 = certs
    /\ challenges0 = challenges

NextStore ==
    \/ \E key \in StoreKeys, value \in StoreValues :
          PutChallenge([Key |-> key, Value |-> value])
    \/ \E key \in StoreKeys : GetChallenge(key)
    \/ \E key \in StoreKeys : DeleteChallenge(key)

SpecStore == InitStore /\ [][NextStore]_vars

(***************************************************************************)
(* The challenge server.                                                   *)
(***************************************************************************)
PathPrefixDefault == <<<<".well-known">>, <<"acme-challenge">>>>

\* a segment of [a-zA-Z0-9_-]+
IsToken(segment) == segment # <<>> /\ "." \notin Range(segment)

\* validPath.FindStringSubmatch: the key in a path of the prefix and one
\* token, no match (nil) for any other path
FindStringSubmatch(pathPrefix, urlPath) ==
    IF /\ Len(urlPath) = Len(pathPrefix) + 1
       /\ SubSeq(urlPath, 1, Len(pathPrefix)) = pathPrefix
       /\ IsToken(urlPath[Len(urlPath)])
    THEN <<urlPath[Len(urlPath)]>>
    ELSE <<>>

\* the entry of a request in ops: what was written to the client, and what
\* DeleteChallenge returned when it was called
Request(urlPath, status, body, deleted) ==
    [op |-> "challengeHandler", path |-> urlPath, status |-> status,
     body |-> body, deleted |-> deleted]

\* coyote listen
Listening ==
    /\ cmd \in {"idle", "listen"}
    /\ pc = "idle"
    /\ Len(ops) < MaxOps
    /\ cmd' = "listen"

\* server.challengeHandler; a handler that panics ends its connection and
\* nothing is written to the client
challengeHandler(urlPath) ==
    /\ Listening
    /\ \E getOk \in FaultOutcomes, ok \in FaultOutcomes,
          missing \in MissingKeyOutcomes :
        LET match == FindStringSubmatch(PathPrefixDefault, urlPath)
            key == IF match = <<>> THEN <<>> ELSE match[1]
            got == GetChallengeReturns(key, getOk)
            del == DeleteChallengeReturns(key, ok, missing)
        IN  IF match = <<>>
            THEN /\ getOk /\ ok /\ missing = "nil"
                 /\ ops' = Append(ops, Request(urlPath, "404 Not Found", <<>>, <<>>))
                 /\ UNCHANGED challenges
            ELSE IF Failed(got.res)
            THEN /\ ok /\ missing = "nil"
                 /\ ops' = Append(ops, Request(urlPath, "404 Not Found", <<>>, <<>>))
                 /\ UNCHANGED challenges
            ELSE IF got.challenge = <<>>
            THEN /\ ok /\ missing = "nil"
                 /\ ops' = Append(ops, Request(urlPath, "panic", <<>>, <<>>))
                 /\ UNCHANGED challenges
            ELSE /\ DeleteUnasked(key, ok, missing)
                 /\ ops' = Append(ops, Request(urlPath, "200 OK",
                                               got.challenge[1].Value, <<del.res>>))
                 /\ challenges' = del.challenges
    /\ Proc("idle", Running, auth, nc, loop, sync)
    /\ UNCHANGED <<accounts, other, certs, issued, now, env, hosts, logVars, visits>>

\* the requests: for the token of a challenge, under another prefix, and
\* with a segment that is no token
UrlPaths ==
    {Append(PathPrefixDefault, Token(d)) : d \in {ExampleCom, OtherOrg}}
        \cup {<<<<"other">>, Token(ExampleCom)>>,
              Append(PathPrefixDefault, <<".">>)}

\* the challenges BeginAuthorize has stored and that were not served yet,
\* in a backend that may hold an entry of another application
StoredChallenges(prefix) ==
    {[p \in {path(prefix, <<challengesPath>>, Token(d)) : d \in ds} |->
         Response(Tail(p.base))] : ds \in SUBSET {ExampleCom, OtherOrg}}

InitServer ==
    /\ certs = <<>>
    /\ env \in {[AnyAnswer EXCEPT !.prefix = p, !.faults = f] :
                  p \in {"", "coyote"}, f \in BOOLEAN}
    /\ challenges \in {s @@ b : s \in StoredChallenges(env.prefix),
                       b \in {<<>>, Bare(Token(OtherOrg))
                                       :> <<"other application">>}}
    /\ issued = 0
    /\ now = 0
    /\ cmd = "idle"
    /\ pc = "idle"
    /\ result = Running
    /\ auth = AuthIdle
    /\ nc = NcIdle
    /\ loop = LoopIdle
    /\ sync = SyncIdle
    /\ hosts = <<>>
    /\ visits = <<>>
    /\ ops = <<>>
    /\ accounts = EarlierAccounts
    /\ other = OtherIdle
    /\ begun = <<>>
    /\ created = <<>>
    /\ stored = <<>>
    /\ certs0 = certs
    /\ challenges0 = challenges

NextServer == \E urlPath \in UrlPaths : challengeHandler(urlPath)

SpecServer == InitServer /\ [][NextServer]_vars

(***************************************************************************)
(* Accounts: the store's part, and NewCoyote, which every command runs     *)
(* first.                                                                  *)
(***************************************************************************)

\* libkvStore.PutAccount: the error it returns
PutAccountUnchecked(account, ok) ==
    IF ok THEN Ok ELSE Error("Put", account.Email, 0)

PutAccountReturns(account, ok) ==
    IF account.Email = <<>>
    THEN Error("must specify email for account", <<>>, 0)
    ELSE IF account.URI = <<>>
    THEN Error("must specify URI for account", <<>>, 0)
    ELSE IF account.Key = <<>>
    THEN Error("must specify key for account", <<>>, 0)
    ELSE IF ~ok
    THEN Error("Put", account.Email, 0)
    ELSE Ok

PutAccountRejected(account) ==
    account.Email = <<>> \/ account.URI = <<>> \/ account.Key = <<>>

\* the entry of a call of PutAccount in ops
AccountOp(account, res) == [op |-> "PutAccount", account |-> account, res |-> res]

PutAccount(account) ==
    /\ StoreCall
    /\ \E ok \in FaultOutcomes :
        LET res == PutAccountReturns(account, ok)
        IN  /\ PutAccountRejected(account) => ok
            /\ accounts' =
                  IF Failed(res)
                  THEN accounts
                  ELSE Put(accounts,
                           path(env.prefix, <<accountsPath>>, account.Email),
                           account)
            /\ ops' = Append(ops, AccountOp(account, res))
            /\ Proc("done", res, auth, nc, loop, sync)
    /\ UNCHANGED <<other, certs, challenges, issued, now, env, hosts, logVars, visits>>

\* libkvStore.GetAccount: the pointer and the error it returns
GetAccountFindsNone(email, ok) == [account |-> <<>>, res |-> Ok]

GetAccountReturns(email, ok) ==
    LET p == path(env.prefix, <<accountsPath>>, email)
    IN  [account |-> IF ok /\ p \in DOMAIN accounts THEN <<accounts[p]>> ELSE <<>>,
         res |-> IF ok THEN Ok ELSE Error("Get", email, 0)]

\* a call NewCoyote made and whether it went well
Call(call, ok) == [call |-> call, ok |-> ok]

\* the one call of NewCoyote that fails, if it is reached
FailingSteps ==
    IF env.faults
    THEN {"none", "NewClient", "GetAccount", "UseAccount", "RegisterAccount",
          "Seal", "PutAccount"}
    ELSE {"none"}

\* coyote.getAccount
getAccount(email, box, fail) ==
    LET got == GetAccountReturns(email, fail # "GetAccount")
        c1 == <<Call("GetAccount", fail # "GetAccount")>>
        key == IF got.account = <<>> THEN <<>> ELSE Open(box, got.account[1].Key)
        c2 == Append(c1, Call("Open", key # <<>>))
        signer == IF key = <<>> THEN <<>> ELSE parsePrivateKeyFromDER(key[1])
        c3 == Append(c2, Call("parsePrivateKeyFromDER", signer # <<>>))
    IN  IF Failed(got.res)
        THEN [account |-> <<>>, res |-> Errore(got.res), calls |-> c1]
        ELSE IF got.account = <<>>
        THEN [account |-> <<>>, res |-> Ok, calls |-> c1]
        ELSE IF key = <<>>
        THEN [account |-> <<>>, res |-> Error("Open", email, 0), calls |-> c2]
        ELSE IF signer = <<>>
        THEN [account |-> <<>>, res |-> Error("parsePrivateKeyFromDER", email, 0),
              calls |-> c3]
        ELSE [account |-> <<[URI |-> got.account[1].URI, Key |-> signer[1],
                             Email |-> got.account[1].Email]>>,
              res |-> Ok, calls |-> c3]

\* coyote.createAccount; n numbers the registration at the endpoint
createAccount(email, box, fail, n) ==
    LET registered == fail # "RegisterAccount"
        r1 == IF registered THEN Ok ELSE Error("error creating new account", email, 0)
        c1 == <<Call("RegisterAccount", registered)>>
        r2 == IF fail # "Seal" THEN Ok ELSE Error("Seal", email, 0)
        c2 == Append(c1, Call("Seal", fail # "Seal"))
        storeAccount == Account(AccountURI(n), email, Seal(box, KeyBytes(n)))
        r3 == PutAccountReturns(storeAccount, fail # "PutAccount")
        c3 == Append(c2, Call("PutAccount", ~Failed(r3)))
    IN  IF Failed(r1)
        THEN [account |-> <<>>, res |-> r1, calls |-> c1, write |-> <<>>]
        ELSE IF Failed(r2)
        THEN [account |-> <<>>, res |-> Errore(r2), calls |-> c2, write |-> <<>>]
        ELSE IF Failed(r3)
        THEN [account |-> <<>>, res |-> Errore(r3), calls |-> c3, write |-> <<>>]
        ELSE [account |-> <<[URI |-> AccountURI(n), Key |-> KeyBytes(n),
                             Email |-> email]>>,
              res |-> Ok, calls |-> c3, write |-> <<storeAccount>>]

\* NewCoyote: the calls it makes, the error and the instance it returns, and
\* the Account it writes
NewCoyoteReturns(config, fail, n) ==
    LET box == NewBoxFromKeyString(config.SecretKey)
        r0 == IF box = <<>> THEN Error("NewBoxFromKeyString", <<>>, 0) ELSE Ok
        c0 == <<Call("NewBoxFromKeyString", box # <<>>)>>
        r1 == IF fail # "NewClient" THEN Ok ELSE Error("NewClient", <<>>, 0)
        c1 == Append(c0, Call("NewClient", fail # "NewClient"))
        got == getAccount(config.ContactEmail, box, fail)
        c2 == c1 \o got.calls
        r3 == IF fail # "UseAccount"
              THEN Ok
              ELSE Error("UseAccount", config.ContactEmail, 0)
        c3 == Append(c2, Call("UseAccount", fail # "UseAccount"))
        made == createAccount(config.ContactEmail, box, fail, n)
        c4 == c2 \o made.calls
        c == [config |-> config, box |-> box]
    IN  IF Failed(r0)
        THEN [calls |-> c0, res |-> Errore(r0), coyote |-> <<>>, write |-> <<>>]
        ELSE IF Failed(r1)
        THEN [calls |-> c1, res |-> Errore(r1), coyote |-> <<>>, write |-> <<>>]
        ELSE IF Failed(got.res)
        THEN [calls |-> c2, res |-> Errore(got.res), coyote |-> <<>>, write |-> <<>>]
        ELSE IF got.account # <<>>
        THEN IF Failed(r3)
             THEN [calls |-> c3, res |-> Errore(r3), coyote |-> <<>>, write |-> <<>>]
             ELSE [calls |-> c3, res |-> Ok, coyote |-> <<c>>, write |-> <<>>]
        ELSE IF Failed(made.res)
        THEN [calls |-> c4, res |-> Errore(made.res), coyote |-> <<>>,
              write |-> made.write]
        ELSE [calls |-> c4, res |-> Ok, coyote |-> <<c>>, write |-> made.write]

\* the entry of a call of NewCoyote in ops
Initialize(config, r) ==
    [op |-> "NewCoyote", config |-> config, calls |-> r.calls, res |-> r.res,
     coyote |-> r.coyote]

NewCoyote(config) ==
    /\ StoreCall
    /\ \E fail \in FailingSteps :
        LET r == NewCoyoteReturns(config, fail, Len(ops) + 1)
        IN  /\ accounts' =
                  IF r.write = <<>>
                  THEN accounts
                  ELSE Put(accounts,
                           path(env.prefix, <<accountsPath>>, r.write[1].Email),
                           r.write[1])
            /\ ops' = Append(ops, Initialize(config, r))
            /\ Proc("done", r.res, auth, nc, loop, sync)
    /\ UNCHANGED <<other, certs, challenges, issued, now, env, hosts, logVars, visits>>

\* the configurations a process is started with: one contact, the secret
\* key of the first start, another one, or none
Configs == [ContactEmail : {ContactEmail}, SecretKey : {"k1", "k2", ""}]

\* the accounts handed to PutAccount directly
Accounts ==
    {Account(uri, email, key) :
        uri \in {<<>>, AccountURI(0)}, email \in {<<>>, ContactEmail},
        key \in {<<>>, Seal(NewBoxFromKeyString("k1"), KeyBytes(0))}}

PutKeys == {<<>>, Token(ExampleCom)}
PutValues == {<<>>, Response(ExampleCom)}

InitAccounts ==
    /\ certs = <<>>
    /\ challenges \in EarlierChallenges(AnyAnswer.prefix)
    /\ accounts \in {<<>>, EarlierAccounts}
    /\ env \in {[AnyAnswer EXCEPT !.faults = f] : f \in BOOLEAN}
    /\ issued = 0
    /\ now = 0
    /\ cmd = "idle"
    /\ pc = "idle"
    /\ result = Running
    /\ auth = AuthIdle
    /\ nc = NcIdle
    /\ loop = LoopIdle
    /\ sync = SyncIdle
    /\ hosts = <<>>
    /\ visits = <<>>
    /\ ops = <<>>
    /\ other = OtherIdle
    /\ begun = <<>>
    /\ created = <<>>
    /\ stored = <<>>
    /\ certs0 = certs
    /\ challenges0 = challenges

NextAccounts ==
    \/ \E config \in Configs : NewCoyote(config)
    \/ \E account \in Accounts : PutAccount(account)
    \/ \E key \in PutKeys, value \in PutValues :
          PutChallenge([Key |-> key, Value |-> value])

SpecAccounts == InitAccounts /\ [][NextAccounts]_vars

(***************************************************************************)
(* certificates add, run twice with the same domains.                      *)
(***************************************************************************)
NextTwice ==
    \/ Next
    \/ CertsAddAgain

SpecTwice == Init /\ [][NextTwice]_vars

(***************************************************************************)
(* uniqueStrings on its own, called with two lists in either order.        *)
(***************************************************************************)
MaxNames == 2

Names == {ExampleCom, AExampleCom, BExampleCom}

\* the entry in ops: the lists, and what uniqueStrings(a, b) and
\* uniqueStrings(b, a) returned
Merged(a, b, ab, ba) == [op |-> "uniqueStrings", a |-> a, b |-> b, ab |-> ab, ba |-> ba]

UniqueStrings(a, b) ==
    /\ cmd = "idle"
    /\ cmd' = "uniqueStrings"
    /\ \E ab \in uniqueStrings(a, b), ba \in uniqueStrings(b, a) :
          ops' = Append(ops, Merged(a, b, ab, ba))
    /\ Proc("done", Ok, auth, nc, loop, sync)
    /\ UNCHANGED <<accounts, other, certs, challenges, issued, now, env, hosts, logVars, visits>>

InitMerge == InitStore /\ env = AnyAnswer /\ challenges = <<>>

NextMerge == \E a \in SeqsUpTo(Names, MaxNames), b \in SeqsUpTo(Names, MaxNames) :
                UniqueStrings(a, b)

SpecMerge == InitMerge /\ [][NextMerge]_vars

(***************************************************************************)
(* Two processes that call NewCertificate at the same time.  The second    *)
(* one has authorized its domains and goes through the load, the request   *)
(* and the store of its one group.                                         *)
(***************************************************************************)
\* the record under domain, as a pointer
Stored(domain) == IF domain \in DOMAIN certs THEN <<certs[domain]>> ELSE <<>>

\* c.config.Store.GetCertificate(domain) and the merge, in the second process
OtherGetCertificate(domain, group) ==
    /\ other.pc = "idle"
    /\ \E sans \in MergedSans(group, domain) :
          other' = [other EXCEPT !.pc = "create", !.domain = domain,
                                 !.group = group, !.sans = sans,
                                 !.seen = Stored(domain)]
    /\ UNCHANGED <<certs, challenges, issued, now, env, cmd, pc, result, auth, nc,
                   loop, sync, hosts, logVars, visits, ops, accounts>>

\* c.client.CreateCertificate(domain, sans), in the second process
OtherCreateCertificate ==
    /\ other.pc = "create"
    /\ issued < MaxIssued
    /\ issued' = issued + 1
    /\ other' = [other EXCEPT !.pc = "put",
                    !.cert = <<IssuedCertificate(issued + 1, now + CertValidity)>>]
    /\ UNCHANGED <<certs, challenges, now, env, cmd, pc, result, auth, nc,
                   loop, sync, hosts, logVars, visits, ops, accounts>>

\* c.config.Store.PutCertificate(storeCert), in the second process
OtherPutCertificate ==
    /\ other.pc = "put"
    /\ certs' = Put(certs, other.domain,
                    StoreCertificate(other.domain, other.sans, other.cert[1]))
    /\ other' = [other EXCEPT !.pc = "done",
                    !.replaced = Stored(other.domain),
                    !.within = pc \in {"create", "put"} /\ nc.domain = other.domain]
    /\ UNCHANGED <<challenges, issued, now, env, cmd, pc, result, auth, nc,
                   loop, sync, hosts, logVars, visits, ops, accounts>>

\* the endpoint authorizes and issues, the store works
GoodAnswer == [AnyAnswer EXCEPT !.acme = [d \in Hostnames |-> "good"],
                                !.faults = FALSE]

\* the domains this process adds and the group of the second process: both
\* under example.com, each with a name the other does not ask for
AddedDomains == {<<AExampleCom>>, <<AExampleCom, ExampleCom>>, <<OtherOrg, AExampleCom>>}
OtherGroups == {<<BExampleCom>>, <<BExampleCom, AExampleCom>>}

InitTwo ==
    /\ certs \in UNION {EarlierStores(ds, [d \in ds |-> CertValidity]) :
                            ds \in SUBSET {ExampleCom}}
    /\ challenges = <<>>
    /\ issued = 2
    /\ now = 0
    /\ env = GoodAnswer
    /\ cmd = "idle"
    /\ pc = "idle"
    /\ result = Running
    /\ auth = AuthIdle
    /\ nc = NcIdle
    /\ loop = LoopIdle
    /\ sync = SyncIdle
    /\ hosts = <<>>
    /\ visits = <<>>
    /\ ops = <<>>
    /\ accounts = EarlierAccounts
    /\ other = OtherIdle
    /\ begun = <<>>
    /\ created = <<>>
    /\ stored = <<>>
    /\ certs0 = certs
    /\ challenges0 = challenges

NextTwo ==
    \/ \E ds \in AddedDomains : CertsAdd(ds)
    \/ BeginAuthorize
    \/ AuthorizeAttempt
    \/ GetCertificate
    \/ CreateCertificate
    \/ PutCertificate
    \/ \E group \in OtherGroups : OtherGetCertificate(ExampleCom, group)
    \/ OtherCreateCertificate
    \/ OtherPutCertificate

SpecTwo == InitTwo /\ [][NextTwo]_vars

(***************************************************************************)
(* Properties of NewCertificate and Authorize.                             *)
(***************************************************************************)
RegisteredDomains(ds) == {EffectiveTLDPlusOne(ds[k]) : k \in DOMAIN ds}

\* the domains of ds under registered domain R, R itself left out
RequestedSans(ds, R) ==
    {ds[k] : k \in {j \in DOMAIN ds : EffectiveTLDPlusOne(ds[j]) = R}} \ {R}

Requests(R) == {k \in DOMAIN created : created[k].domain = R}

AddDone == cmd = "certs add" /\ pc = "done"

\* C1: with no certificate stored beforehand, a NewCertificate that succeeds has
\* requested and stored exactly one certificate per registered domain R of its
\* input, under Domain = R, with the input's domains under R other than R as
\* its alternative names
C1_OneCertificatePerRegisteredDomain ==
    (AddDone /\ result = Ok /\ DOMAIN certs0 = {}) =>
        LET Rs == RegisteredDomains(nc.domains)
        IN  /\ DOMAIN certs = Rs
            /\ Len(created) = Cardinality(Rs)
            /\ Len(stored) = Cardinality(Rs)
            /\ \A R \in Rs :
                /\ Cardinality(Requests(R)) = 1
                /\ \A k \in Requests(R) :
                      Range(created[k].sans) = RequestedSans(nc.domains, R)
                /\ certs[R].Domain = R
                /\ Range(certs[R].AlternativeNames) = RequestedSans(nc.domains, R)

C1_Witness ==
    /\ AddDone /\ result = Ok /\ DOMAIN certs0 = {}
    /\ nc.domains = <<AExampleCom, OtherOrg, ExampleCom>>
    /\ DOMAIN certs = {ExampleCom, OtherOrg}
    /\ certs[ExampleCom].AlternativeNames = <<AExampleCom>>

\* C2: for a group whose registered domain R has a stored certificate with
\* alternative names S, the names sent to CreateCertificate and the names of the
\* record stored afterwards are, as sets, S united with the names newly
\* requested under R
C2_MergeIsUnion ==
    cmd = "certs add" =>
        /\ \A k \in DOMAIN created :
              created[k].domain \in DOMAIN certs0 =>
                 Range(created[k].sans) =
                    Range(certs0[created[k].domain].AlternativeNames)
                       \cup RequestedSans(nc.domains, created[k].domain)
        /\ \A k \in DOMAIN stored :
              stored[k].Domain \in DOMAIN certs0 =>
                 /\ Range(stored[k].AlternativeNames) =
                       Range(certs0[stored[k].Domain].AlternativeNames)
                          \cup RequestedSans(nc.domains, stored[k].Domain)
                 /\ certs[stored[k].Domain] = stored[k]

C2_Witness ==
    /\ AddDone /\ result = Ok
    /\ ExampleCom \in DOMAIN certs0
    /\ certs0[ExampleCom].AlternativeNames = <<AExampleCom>>
    /\ nc.domains = <<BExampleCom>>
    /\ Range(certs[ExampleCom].AlternativeNames) = {AExampleCom, BExampleCom}
    /\ certs[ExampleCom] # certs0[ExampleCom]

\* C3: an Authorize whose challenge was handed out calls the endpoint's
\* completion until the first success, 5 times at most, waits 300, 600, 900,
\* 1200 ms between the attempts, returns ok after the first success and the 5th
\* attempt's error after 5 failures
C3_AuthorizeRetries ==
    (cmd = "authorize" /\ pc = "done" /\ auth.challenge # <<>>) =>
        LET n == Len(auth.attempts)
        IN  /\ n \in 1..5
            /\ \A k \in 1..(n - 1) : ~auth.attempts[k]
            /\ auth.sleeps = SubSeq(<<300, 600, 900, 1200>>, 1, n - 1)
            /\ IF auth.attempts[n]
               THEN result = Ok
               ELSE /\ n = 5
                    /\ result = Error("CompleteAuthorize", auth.domain, 5)

C3_Witness ==
    /\ cmd = "authorize" /\ pc = "done"
    /\ auth.attempts = <<FALSE, FALSE, FALSE, FALSE, FALSE>>
    /\ auth.sleeps = <<300, 600, 900, 1200>>
    /\ result.kind = "error"

AnsweredNone == \E k \in DOMAIN begun : begun[k].answer = "none"

\* C4: when the endpoint reports that no challenge is required, BeginAuthorize
\* stores no challenge, Authorize returns ok without a completion call and
\* without crashing, and NewCertificate does not crash either
C4_AlreadyAuthorizedIsOk ==
    (pc = "done" /\ AnsweredNone) =>
        /\ cmd = "authorize" =>
              /\ result = Ok
              /\ auth.attempts = <<>>
              /\ challenges = challenges0
        /\ cmd = "certs add" => result.kind # "panic"

AuthorizeFailed ==
    /\ cmd = "certs add"
    /\ nc.authErr.kind = "error"

\* C5: once the authorization of an input domain has failed, NewCertificate has
\* returned that error, has authorized no later domain, has called
\* CreateCertificate never, has left every certificate as it was and has at
\* most added challenges
C5_AuthorizationFailureAborts ==
    AuthorizeFailed =>
        /\ pc = "done"
        /\ result = nc.authErr
        /\ nc.authErr.err[2] = nc.domains[Len(begun)]
        /\ [k \in DOMAIN begun |-> begun[k].domain] = SubSeq(nc.domains, 1, Len(begun))
        /\ created = <<>>
        /\ stored = <<>>
        /\ certs = certs0
        /\ \A key \in DOMAIN challenges0 :
              key \in DOMAIN challenges /\ challenges[key] = challenges0[key]

C5_Witness ==
    /\ AuthorizeFailed
    /\ nc.domains = <<AExampleCom, ExampleCom, OtherOrg>>
    /\ Len(begun) = 2
    /\ nc.authErr = Error("CompleteAuthorize", ExampleCom, 5)
    /\ challenges0 # <<>>
    /\ DOMAIN challenges = DOMAIN challenges0 \cup
          {path(env.prefix, <<challengesPath>>, Token(d)) : d \in {AExampleCom, ExampleCom}}

GroupFailed ==
    /\ cmd = "certs add"
    /\ nc.err.kind = "error"
    /\ nc.err.err[1] \in {"GetCertificate", "CreateCertificate", "PutCertificate"}

StoredDomains == {stored[k].Domain : k \in DOMAIN stored}

\* C6: once loading, issuing or storing the certificate of a group has failed,
\* NewCertificate has returned the error, no group the loop had not reached was
\* requested or stored, and the records written for the earlier groups are in
\* the store with their new values
C6_GroupFailureAborts ==
    GroupFailed =>
        /\ pc = "done"
        /\ result = nc.err
        /\ nc.err.err[2] \notin StoredDomains
        /\ \A k \in DOMAIN stored : certs[stored[k].Domain] = stored[k]
        /\ \A k \in DOMAIN created :
              created[k].domain \in StoredDomains \cup {nc.err.err[2]}
        /\ \A R \in DOMAIN nc.groupedDomains \ StoredDomains :
              IF R \in DOMAIN certs0
              THEN R \in DOMAIN certs /\ certs[R] = certs0[R]
              ELSE R \notin DOMAIN certs

C6_Witness ==
    /\ GroupFailed
    /\ pc = "done"
    /\ Len(stored) = 1
    /\ DOMAIN nc.groupedDomains = {ExampleCom, OtherOrg}
    /\ certs[stored[1].Domain] = stored[1]
    /\ stored[1].Domain \notin DOMAIN certs0

(***************************************************************************)
(* Properties of sync.Certificates.                                        *)
(***************************************************************************)
\* the thumbprint of the leaf of the host that visit k found
FoundThumbprint(k) ==
    Thumbprint(Raw(DecodeCertificates(visits[k].found[1].CertificatePEM)[1]))

FoundInPlace(k) ==
    /\ visits[k].found # <<>>
    /\ DecodeCertificates(visits[k].found[1].CertificatePEM) # <<>>
    /\ FoundThumbprint(k) = sync.certs[visits[k].c].Thumbprint

\* C9: for a name whose external host exists and carries a leaf with the
\* certificate's Thumbprint, no PutHost is issued
C9_NoPushWhenThumbprintsAgree ==
    \A k \in DOMAIN visits : FoundInPlace(k) => ~visits[k].put

C9_Witness ==
    /\ cmd = "sync" /\ pc = "done" /\ result = Ok
    /\ \E k \in DOMAIN visits :
          /\ FoundInPlace(k)
          /\ ~visits[k].put
          /\ hosts[visits[k].name] = visits[k].found[1]
    /\ \E k \in DOMAIN visits : visits[k].put

\* C10: when sync.Certificates has returned ok, every name of every given
\* certificate has an external host carrying that certificate's chain and key
C10_EveryNameCarriesTheCertificate ==
    (cmd = "sync" /\ pc = "done" /\ result = Ok) =>
        \A c \in DOMAIN sync.certs :
            \A name \in Range(getAllNames(sync.certs[c])) :
                /\ name \in DOMAIN hosts
                /\ hosts[name].CertificatePEM = sync.certs[c].CertificateChain
                /\ hosts[name].PrivateKeyPEM = sync.certs[c].PrivateKey

(***************************************************************************)
(* Properties of the renewal loops.                                        *)
(***************************************************************************)
\* C7: a renewal loop never ends: whatever a tick returns, the loop sleeps
\* and goes on with the next tick
C7_LoopNeverEnds ==
    cmd \in {"RenewLoop", "certs watch"} => pc # "done"

\* the stored certificate of R is due, and its renewal would succeed
DueAndRenewable(R) ==
    /\ R \in DOMAIN certs
    /\ Expiring(now + loop.before, certs[R])
    /\ ~env.faults
    /\ env.acme[R] = "good"

\* the renewal of exactly one stored certificate fails on every tick
OneFailing ==
    Cardinality({F \in DOMAIN certs : env.acme[F] = "bad"}) = 1

\* C8: in the watch loop, with a single certificate whose renewal fails on
\* every tick, every other certificate that is due and renewable is
\* eventually renewed
C8_OthersEventuallyRenewed ==
    \A R \in {ExampleCom, OtherOrg} :
        [](((cmd = "certs watch") /\ OneFailing /\ DueAndRenewable(R))
              => <>(R \in DOMAIN certs /\ ~Expiring(now + loop.before, certs[R])))

(***************************************************************************)
(* Properties of repeated synchronisation and of the stored record.        *)
(***************************************************************************)
\* cert is a record as NewCertificate builds it from an issued certificate
ProducedByNewCertificate(cert) ==
    \E serial \in 1..MaxIssued :
        cert = StoreCertificate(cert.Domain, cert.AlternativeNames,
                                IssuedCertificate(serial, cert.Expires))

\* C11: with certificates as NewCertificate stores them, a second
\* synchronisation after one that returned ok issues no PutHost
C11_SecondReconcilePutsNothing ==
    (/\ cmd = "sync"
     /\ sync.call = 2
     /\ \A d \in DOMAIN certs : ProducedByNewCertificate(certs[d]))
        => \A k \in DOMAIN visits : ~visits[k].put

\* C12: every record NewCertificate has stored carries the validity end of
\* the issued leaf as Expires and the digest of its raw bytes as Thumbprint
C12_StoredRecordIsTheIssuedCertificate ==
    \A k \in DOMAIN stored :
        LET leaf == DecodeCertificates(stored[k].CertificateChain)[1]
        IN  /\ stored[k].Expires = leaf.NotAfter
            /\ stored[k].Thumbprint = Thumbprint(Raw(leaf))
            /\ certs[stored[k].Domain] = stored[k]

(***************************************************************************)
(* Properties of a failing synchronisation.                                *)
(***************************************************************************)
\* the names of the certificates given to Certificates, by position
AllNames ==
    {n \in (DOMAIN sync.certs) \X (1..MaxDomains) :
        n[2] <= Len(getAllNames(sync.certs[n[1]]))}

\* C19: the visit at which GetHost, the decoding or PutHost failed is the
\* last call to the external system, its error is what the command returned,
\* and the hosts put before it are in place
C19_FailureAbortsReconcile ==
    cmd = "sync" =>
        \A k \in DOMAIN visits :
            visits[k].err # "" =>
                /\ k = Len(visits)
                /\ pc = "done"
                /\ result = Error(visits[k].err, visits[k].name, 0)
                /\ \A e \in 1..(k - 1) :
                      visits[e].put =>
                          /\ visits[e].name \in DOMAIN hosts
                          /\ hosts[visits[e].name] =
                                Host(visits[e].name, sync.certs[visits[e].c])

C19_Witness ==
    /\ cmd = "sync"
    /\ Len(visits) = 2
    /\ visits[1].put /\ visits[1].err = ""
    /\ visits[2].err = "PutHost"
    /\ visits[1].name \in DOMAIN hosts
    /\ Cardinality(AllNames) > 2
    /\ pc = "done"

(***************************************************************************)
(* Properties of a tick of the renewal loops.                              *)
(***************************************************************************)
\* the listed certificates whose stored record this tick has replaced
RenewedInTick ==
    {k \in DOMAIN loop.certs :
        /\ loop.certs[k].Domain \in DOMAIN certs
        /\ certs[loop.certs[k].Domain] # loop.certs[k]}

\* C13: when the watch loop, with a vulcand endpoint configured, goes to
\* sleep, sync.Certificates has been called in this tick with every
\* certificate the tick renewed
C13_RenewedAreReconciledBeforeSleep ==
    (cmd = "certs watch" /\ pc = "sleep" /\ env.vulcand) =>
        \A k \in RenewedInTick :
            certs[loop.certs[k].Domain] \in Range(sync.certs)

\* RenewExpiringCertificates has returned, with or without an error
ScanReturned ==
    /\ cmd \in {"certs renew", "RenewLoop", "certs watch"}
    /\ pc \in {"sync", "sleep", "done"}
    /\ result # Panic

\* the scan of this tick gave the names of cert to NewCertificate
CalledFor(cert) ==
    \E c \in DOMAIN loop.calls :
        loop.calls[c] = Append(cert.AlternativeNames, cert.Domain)

\* C14: a scan calls NewCertificate for exactly the listed certificates that
\* expire before now + before, and leaves the others as they are
C14_RenewsExactlyTheExpiring ==
    ScanReturned =>
        \A k \in DOMAIN loop.certs :
            /\ CalledFor(loop.certs[k]) <=> loop.certs[k].Expires < now + loop.before
            /\ loop.certs[k].Expires >= now + loop.before =>
                  /\ loop.certs[k].Domain \in DOMAIN certs
                  /\ certs[loop.certs[k].Domain] = loop.certs[k]

(***************************************************************************)
(* Invariants of the stored certificates.                                  *)
(***************************************************************************)
\* C15: no stored certificate lists its own Domain among its
\* AlternativeNames, whatever the renewals did
C15_DomainIsNoAlternativeName ==
    \A d \in DOMAIN certs : certs[d].Domain \notin Range(certs[d].AlternativeNames)

C15_Witness ==
    /\ cmd = "certs watch"
    /\ loop.calls = <<<<BExampleCom, AExampleCom, ExampleCom>>>>
    /\ pc = "scan"
    /\ certs[ExampleCom] # loop.certs[loop.k - 1]
    /\ Range(certs[ExampleCom].AlternativeNames) = {AExampleCom, BExampleCom}

NoDuplicates(names) == Cardinality(Range(names)) = Len(names)

\* C16: no SAN list sent to CreateCertificate and no stored certificate's
\* AlternativeNames holds a hostname twice
C16_NoHostnameTwice ==
    /\ \A k \in DOMAIN created : NoDuplicates(created[k].sans)
    /\ \A d \in DOMAIN certs : NoDuplicates(certs[d].AlternativeNames)

\* C17: every stored certificate is kept under its Domain, which is a
\* registered domain and the registered domain of each of its
\* AlternativeNames, so that no registered domain has two certificates
C17_DomainIsTheRegisteredDomain ==
    \A d \in DOMAIN certs :
        /\ certs[d].Domain = d
        /\ EffectiveTLDPlusOne(d) = d
        /\ \A name \in Range(certs[d].AlternativeNames) :
              EffectiveTLDPlusOne(name) = d
        /\ \A e \in DOMAIN certs : certs[e].Domain = certs[d].Domain => e = d

C17_Witness ==
    /\ cmd = "certs add"
    /\ pc = "done"
    /\ result = Ok
    /\ nc.domains = <<AExampleCom, OtherOrg, BExampleCom>>
    /\ Len(stored) = 2
    /\ DOMAIN certs = {ExampleCom, OtherOrg}
    /\ Range(certs[ExampleCom].AlternativeNames) = {AExampleCom, BExampleCom}

(***************************************************************************)
(* Properties of the standalone CompleteAuthorize.                         *)
(***************************************************************************)
\* C18: CompleteAuthorize gives up as Authorize does: when it returns an
\* error, it has made authRetries attempts and slept i * backoffMs after
\* failed attempt i
C18_CompleteAuthorizeRetriesLikeAuthorize ==
    (cmd = "CompleteAuthorize" /\ pc = "done" /\ result.kind = "error") =>
        /\ Len(auth.attempts) = authRetries
        /\ auth.sleeps = [i \in 1..(authRetries - 1) |-> i * backoffMs]

(***************************************************************************)
(* Properties of the store's challenges.                                   *)
(***************************************************************************)
\* call i put value under key
PutOf(i, key, value) ==
    /\ i \in DOMAIN ops
    /\ ops[i] = Op("PutChallenge", key, value, <<>>, Ok)

\* call i is a GetChallenge(key) that the backend answered
GetOf(i, key) ==
    /\ i \in DOMAIN ops
    /\ ops[i].op = "GetChallenge"
    /\ ops[i].key = key
    /\ ops[i].res = Ok

\* C20: a GetChallenge(k) right after PutChallenge(k, v) returns {k, v}, and
\* after a DeleteChallenge(k) that returned ok it returns no challenge
C20_PutGetDeleteGet ==
    \A i \in DOMAIN ops, key \in StoreKeys \ {<<>>}, value \in StoreValues \ {<<>>} :
        /\ (PutOf(i, key, value) /\ GetOf(i + 1, key)) =>
              ops[i + 1].challenge = <<[Key |-> key, Value |-> value]>>
        /\ (/\ PutOf(i, key, value)
            /\ i + 1 \in DOMAIN ops
            /\ ops[i + 1] = Op("DeleteChallenge", key, <<>>, <<>>, Ok)
            /\ GetOf(i + 2, key)) =>
              ops[i + 2].challenge = <<>>

(***************************************************************************)
(* Properties of the challenge server.                                     *)
(***************************************************************************)
Requests21 == {i \in DOMAIN ops : ops[i].op = "challengeHandler"}

\* C21: a request for the path prefix and the token of a stored Challenge is
\* answered with 200 and the stored response, whether the deletion that
\* follows fails or not, and the Challenge is served at most once: with a
\* backend that works, no later request for the token is answered with that
\* response again.
C21_ServedAtMostOnce ==
    \A i \in Requests21, j \in Requests21 :
        (/\ i < j
         /\ ~env.faults
         /\ ops[i].status = "200 OK"
         /\ ops[j].path = ops[i].path)
            => ~(ops[j].status = "200 OK" /\ ops[j].body = ops[i].body)

(***************************************************************************)
(* Properties of the accounts and of NewCoyote.                            *)
(***************************************************************************)
LastOp == ops[Len(ops)]

\* a PutAccount without Email, URI or Key, or a PutChallenge without key or
\* value
MissingField(o) ==
    \/ /\ o.op = "PutAccount"
       /\ (o.account.Email = <<>> \/ o.account.URI = <<>> \/ o.account.Key = <<>>)
    \/ /\ o.op = "PutChallenge"
       /\ (o.key = <<>> \/ o.value = <<>>)

\* C22: PutAccount with an empty Email, URI or Key and PutChallenge with an
\* empty key or value return an error and write nothing: the store is as it
\* was before the call.
C22_RejectedPutWritesNothing ==
    [][(Len(ops') = Len(ops) + 1 /\ MissingField(ops'[Len(ops')]))
          => /\ ops'[Len(ops')].res.kind = "error"
             /\ accounts' = accounts
             /\ challenges' = challenges
             /\ certs' = certs]_vars

C22_Witness ==
    /\ \E i \in DOMAIN ops :
          ops[i].op = "PutAccount" /\ MissingField(ops[i]) /\ ops[i].res.kind = "error"
    /\ \E i \in DOMAIN ops :
          ops[i].op = "PutChallenge" /\ MissingField(ops[i]) /\ ops[i].res.kind = "error"
    /\ LastOp.op = "PutAccount" /\ LastOp.res = Ok

Starts == {i \in DOMAIN ops : ops[i].op = "NewCoyote"}

\* the call NewCoyote number i made of that name, if it made one
Made(i, call) == {k \in DOMAIN ops[i].calls : ops[i].calls[k].call = call}
WentWell(i, call) == \E k \in Made(i, call) : ops[i].calls[k].ok

\* C23: over any sequence of starts with the same contact against the same
\* store: once an Account is stored (a start succeeded), no later start
\* calls RegisterAccount or PutAccount again; a later start whose lookup
\* goes through finds the Account, and binds to it with UseAccount when its
\* key can be opened.
C23_RegistersOnce ==
    \A i \in Starts, j \in Starts :
        (/\ i < j
         /\ ops[i].res = Ok
         /\ ops[j].config.ContactEmail = ops[i].config.ContactEmail)
            => /\ Made(j, "RegisterAccount") = {}
               /\ Made(j, "PutAccount") = {}
               /\ WentWell(j, "GetAccount") => Made(j, "Open") # {}
               /\ WentWell(j, "parsePrivateKeyFromDER") => Made(j, "UseAccount") # {}

C23_Witness ==
    \E i \in Starts, j \in Starts :
        /\ i < j
        /\ WentWell(i, "RegisterAccount") /\ WentWell(i, "PutAccount")
        /\ ops[i].res = Ok
        /\ WentWell(j, "UseAccount")
        /\ ops[j].res = Ok

\* C24: if a step of NewCoyote fails (the lookup in the store, opening the
\* key, binding to the account, the registration, sealing the key, storing
\* the account) NewCoyote returns an error and no instance, that step is the
\* last call it made, no call is made twice, and when it was the
\* registration that failed no Account is written.
C24_FailedStartReturnsError ==
    [][(Len(ops') = Len(ops) + 1 /\ ops'[Len(ops')].op = "NewCoyote")
          => LET e == ops'[Len(ops')]
                 failing == {k \in DOMAIN e.calls : ~e.calls[k].ok}
             IN  /\ failing # {} =>
                       /\ e.res.kind = "error"
                       /\ e.coyote = <<>>
                       /\ failing = {Len(e.calls)}
                 /\ \A k \in DOMAIN e.calls, l \in DOMAIN e.calls :
                       e.calls[k].call = e.calls[l].call => k = l
                 /\ (\E k \in failing : e.calls[k].call = "RegisterAccount")
                       => accounts' = accounts
                 /\ failing = {} => e.res = Ok /\ e.coyote # <<>>]_vars

C24_Witness ==
    \E i \in Starts, j \in Starts :
        /\ Made(i, "RegisterAccount") # {} /\ ~WentWell(i, "RegisterAccount")
        /\ ops[i].res.kind = "error" /\ ops[i].coyote = <<>>
        /\ Made(j, "PutAccount") # {} /\ ~WentWell(j, "PutAccount")
        /\ ops[j].res.kind = "error" /\ ops[j].coyote = <<>>
        /\ accounts = <<>>

(***************************************************************************)
(* Properties of NewCertificate called again.                              *)
(***************************************************************************)
\* what the call before this one left
Before == ops[Len(ops)]

CalledAgain == AddDone /\ result = Ok /\ ops # <<>>

\* C25: NewCertificate called twice in a row with the same domains, both
\* calls succeeding, leaves every Certificate with the Domain and the set of
\* AlternativeNames the first call left, and the second call too requests a
\* certificate for every group, and stores the new one.
C25_SecondCallLeavesTheNames ==
    CalledAgain =>
        /\ DOMAIN certs = DOMAIN Before.certs
        /\ \A R \in DOMAIN certs :
              /\ certs[R].Domain = Before.certs[R].Domain
              /\ Range(certs[R].AlternativeNames)
                    = Range(Before.certs[R].AlternativeNames)
        /\ \A R \in RegisteredDomains(nc.domains) :
              /\ Cardinality(Requests(R)) = 1
              /\ Cardinality({k \in DOMAIN Before.created :
                                 Before.created[k].domain = R}) = 1
              /\ certs[R].CertificateChain # Before.certs[R].CertificateChain

\* the second call has merged names the first call took from an earlier
\* certificate
C25_Witness ==
    /\ CalledAgain
    /\ \E R \in RegisteredDomains(nc.domains) :
          /\ RequestedSans(nc.domains, R) # {}
          /\ Range(certs[R].AlternativeNames) \ RequestedSans(nc.domains, R) # {}

(***************************************************************************)
(* Properties of uniqueStrings.                                            *)
(***************************************************************************)
Merges == {i \in DOMAIN ops : ops[i].op = "uniqueStrings"}

\* C26: uniqueStrings(A, B) and uniqueStrings(B, A) hold the same set of
\* hostnames, the union of those of A and of B, and neither holds a hostname
\* twice.
C26_MergeCommutes ==
    \A i \in Merges :
        /\ Range(ops[i].ab) = Range(ops[i].ba)
        /\ Range(ops[i].ab) = Range(ops[i].a) \cup Range(ops[i].b)
        /\ NoDuplicates(ops[i].ab)
        /\ NoDuplicates(ops[i].ba)

\* lists that overlap, each with a hostname the other lacks, merged in two
\* different orders
C26_Witness ==
    \E i \in Merges :
        /\ Range(ops[i].a) \ Range(ops[i].b) # {}
        /\ Range(ops[i].b) \ Range(ops[i].a) # {}
        /\ Range(ops[i].a) \cap Range(ops[i].b) # {}
        /\ ops[i].ab # ops[i].ba

(***************************************************************************)
(* Properties of two processes adding names to the same certificate.       *)
(***************************************************************************)
\* the names a call that succeeded asked for under R, and the names the
\* record under R lacks of them
AskedFor(R) ==
    (IF AddDone /\ result = Ok THEN RequestedSans(nc.domains, R) ELSE {})
        \cup (IF other.pc = "done" /\ other.domain = R THEN Range(other.group) ELSE {})

Lost(R) ==
    IF R \in DOMAIN certs
    THEN AskedFor(R) \ Range(certs[R].AlternativeNames)
    ELSE AskedFor(R)

\* the load-merge-store steps of the two processes were interleaved: one
\* stored between the load and the store of the other
Interleaved == other.within \/ other.seen # other.replaced

\* C27: a name that a successful NewCertificate asked for is missing from
\* the stored record only when the load-merge-store steps of two processes
\* for the same registered domain were interleaved; there is such an
\* interleaving (C27_Witness), and with one process alone, or one after the
\* other, no name is lost.
C27_LostOnlyWhenInterleaved ==
    \A R \in {ExampleCom, OtherOrg} : Lost(R) # {} => Interleaved

\* both calls succeeded and the record lacks the name one of them added
C27_Witness ==
    /\ AddDone /\ result = Ok
    /\ other.pc = "done"
    /\ Lost(ExampleCom) # {}
    /\ Range(other.group) \cap RequestedSans(nc.domains, ExampleCom) = {}

(***************************************************************************)
(* Properties of the pushes of the watch loop.                             *)
(***************************************************************************)
\* the stored certificate of R was issued in this run
Reissued(R) == R \in DOMAIN certs /\ certs[R].Expires >= CertValidity

\* the external system holds the stored certificate of R for R
Pushed(R) == R \in DOMAIN hosts /\ hosts[R] = Host(R, certs[R])

\* C28: no push is lost: with an external system and a store that work and
\* an endpoint that asks for a challenge for every domain, a certificate
\* the watch loop has renewed and stored is eventually pushed to the
\* external system, also when the tick that renewed it failed on another
\* certificate afterwards
C28_NoPushLost ==
    \A R \in {ExampleCom, OtherOrg} :
        []((/\ cmd = "certs watch"
            /\ env.vulcand
            /\ ~env.faults
            /\ \A d \in Hostnames : env.acme[d] \in {"good", "bad"}
            /\ Reissued(R))
              => <>Pushed(R))

(***************************************************************************)
(* Properties of the order of authorization, storing and issuance.         *)
(***************************************************************************)
\* the domains this NewCertificate has called Authorize for
Authorized == {begun[i].domain : i \in DOMAIN begun}

\* C29: every hostname sent to CreateCertificate, the domain and each of the
\* merged alternative names, was authorized earlier in the same call of
\* NewCertificate: also the registered domain of a group made of subdomains
\* only, and the names taken over from the stored certificate.
C29_RequestedNamesWereAuthorized ==
    \A k \in DOMAIN created :
        ({created[k].domain} \cup Range(created[k].sans)) \subseteq Authorized

\* the store holds the Challenge of the challenge handed out for d
ChallengeStored(d) ==
    LET p == path(env.prefix, <<challengesPath>>, Token(d))
    IN  p \in DOMAIN challenges /\ challenges[p] = Response(d)

\* C30: when the endpoint hands out a challenge, the Challenge is in the
\* store before the endpoint is first told to complete the authorization;
\* when storing it fails, Authorize returns the error and completion is
\* never asked for.
C30_StoredBeforeCompletion ==
    /\ (pc = "complete" \/ auth.attempts # <<>>) => ChallengeStored(auth.domain)
    /\ (/\ cmd = "authorize"
        /\ pc = "done"
        /\ \E i \in DOMAIN begun : begun[i].answer = "challenge"
        /\ ~ChallengeStored(auth.domain))
          => /\ result.kind = "error"
             /\ result.err[1] = "PutChallenge"
             /\ auth.attempts = <<>>

\* Authorize stored the Challenge, asked for completion more than once and
\* succeeded
C30_Witness ==
    /\ cmd = "authorize"
    /\ pc = "done"
    /\ result = Ok
    /\ Len(auth.attempts) > 1
    /\ ChallengeStored(auth.domain)
    /\ challenges0 = <<>>

(***************************************************************************)
(* Properties of a request for a token that is not stored.                 *)
(***************************************************************************)
\* the store holds no Challenge under the token of urlPath, a path of the
\* prefix and one token
Absent(urlPath) ==
    /\ FindStringSubmatch(PathPrefixDefault, urlPath) # <<>>
    /\ path(env.prefix, <<challengesPath>>,
            FindStringSubmatch(PathPrefixDefault, urlPath)[1])
          \notin DOMAIN challenges

\* C31: a request for a well-formed token without a stored Challenge is
\* taken as absent: the handler answers not-found, without a panic and
\* without the body of a challenge, and leaves the store as it is.
C31_AbsentTokenIsNotFound ==
    [][(/\ Len(ops') = Len(ops) + 1
        /\ ops'[Len(ops')].op = "challengeHandler"
        /\ Absent(ops'[Len(ops')].path))
          => /\ ops'[Len(ops')].status = "404 Not Found"
             /\ ops'[Len(ops')].body = <<>>
             /\ challenges' = challenges]_vars

(***************************************************************************)
(* Properties of the store after a scan.                                   *)
(***************************************************************************)
\* RenewExpiringCertificates has gone through every listed certificate
\* without an error and returns nil
ScanSucceeds ==
    /\ cmd \in {"certs renew", "RenewLoop", "certs watch"}
    /\ pc = "scan"
    /\ loop.k > Len(loop.certs)

\* C32: a RenewExpiringCertificates that succeeds changes the store in the
\* records of the selected certificates only: a renewed certificate keeps
\* its Domain and its set of AlternativeNames, no record appears under a
\* new key, the number of stored certificates stays, and the record of a
\* certificate that was not selected is untouched.
C32_ScanKeepsNamesAndKeys ==
    ScanSucceeds =>
        /\ DOMAIN certs = {loop.certs[k].Domain : k \in DOMAIN loop.certs}
        /\ Cardinality(DOMAIN certs) = Len(loop.certs)
        /\ \A k \in DOMAIN loop.certs :
              LET cert == loop.certs[k]
              IN  /\ certs[cert.Domain].Domain = cert.Domain
                  /\ Range(certs[cert.Domain].AlternativeNames)
                        = Range(cert.AlternativeNames)
                  /\ ~Expiring(loop.threshold, cert) => certs[cert.Domain] = cert

\* the scan renewed a certificate with alternative names and left another
\* one that was not due
C32_Witness ==
    /\ ScanSucceeds
    /\ \E k \in DOMAIN loop.certs :
          /\ loop.certs[k].AlternativeNames # <<>>
          /\ certs[loop.certs[k].Domain] # loop.certs[k]
    /\ \E k \in DOMAIN loop.certs : ~Expiring(loop.threshold, loop.certs[k])

(***************************************************************************)
(* Properties of the numbers of the watch command.                         *)
(***************************************************************************)
\* C33: the watch command sleeps 24 hours between two ticks and renews the
\* certificates that expire in less than 7 days
C33_WatchDailyWeekAhead ==
    cmd = "certs watch" =>
        /\ loop.period = 24 * Hour
        /\ loop.before = 7 * 24 * Hour
        /\ pc = "scan" => loop.threshold = now + 7 * 24 * Hour

====
